---- MODULE Spec2Model ----
(***************************************************************************)
(* Model of the ameli-scraper orchestration: main() opens a database       *)
(* session and calls scrape_doctors_for_city, which looks a city up in the *)
(* cities table, geocodes it on a miss, bootstraps an authenticated HTTP   *)
(* session, searches the directory and stores the doctors it finds.        *)
(*                                                                         *)
(* Python values: None is NoneV; a JSON string, boolean or object is a     *)
(* tagged record (JStr, JBool, JObj, JList).  Decimal numbers are written  *)
(* as their text, which is what the f-strings print.                       *)
(***************************************************************************)
EXTENDS Naturals, Sequences, FiniteSets

\* ------------------------------------------------------------------ bounds

\* Runs of main() started over a behaviour.
MaxRuns == 2

\* Longest 'data' list of a search payload.
MaxDoctors == 2

\* The processes that can run main(); each has its own database session.
Runs == {"r1", "r2"}

CityNames == {"Marseille", "Lyon"}

ProfessionIds == {37}

\* ------------------------------------------------------------------ values

NoneV == [t |-> "None"]

JStr(s) == [t |-> "str", v |-> s]

JBool(b) == [t |-> "bool", v |-> b]

JList(l) == [t |-> "list", v |-> l]

\* A JSON object: d gives every key the payload format knows a value, and
\* Missing to a key the object does not have.
JObj(d) == [t |-> "dict", v |-> d]

Missing == [t |-> "missing"]

\* k in d
HasKey(d, k) == d[k].t # "missing"

\* d.get(k, default)
Get(d, k, default) == IF HasKey(d, k) THEN d[k] ELSE default

\* Python truthiness: None, {}, [], "" and False are falsy.
Truthy(x) ==
    CASE x.t = "None" -> FALSE
      [] x.t = "dict" -> \E k \in DOMAIN x.v : HasKey(x.v, k)
      [] x.t = "list" -> x.v # << >>
      [] x.t = "str" -> x.v # ""
      [] x.t = "bool" -> x.v

\* The outcome of evaluating an expression: a value or a raised exception.
Return(x) == [exc |-> "none", val |-> x]

Raise(e) == [exc |-> e, val |-> NoneV]

\* ------------------------------------------------------------------ geocoder

\* One geocoding result: geometry.centre.coordinates is [lng, lat] and
\* geometry.bbox.coordinates[0] is the polygon, a list of [lon, lat] pairs.
GeoResult(lng, lat, polygon) ==
    [geometry |-> [centre |-> [coordinates |-> <<lng, lat>>],
                   bbox |-> [coordinates |-> <<polygon>>]]]

ResultA ==
    GeoResult("5.38", "43.28",
              << <<"5.22", "43.16">>, <<"5.53", "43.39">>, <<"5.22", "43.16">> >>)

ResultB ==
    GeoResult("4.83", "45.76",
              << <<"4.77", "45.70">>, <<"4.89", "45.80">>, <<"4.77", "45.70">> >>)

\* A result of another shape: no 'geometry' key.
ResultNoGeometry == [nom |-> "Marseille"]

\* A result whose geometry has no 'bbox'.
ResultNoBbox == [geometry |-> [centre |-> [coordinates |-> <<"5.38", "43.28">>]]]

\* What requests.get + raise_for_status + response.json() can give:
\* net is "error" for a timeout, a connection failure or a non-2xx status.
GeoResponse(net, decodable, data) == [net |-> net, decodable |-> decodable, data |-> data]

GeoResponses ==
    { GeoResponse("error", FALSE, << >>),
      GeoResponse("ok", FALSE, << >>),
      GeoResponse("ok", TRUE, << >>),
      GeoResponse("ok", TRUE, <<ResultA>>),
      GeoResponse("ok", TRUE, <<ResultB, ResultA>>),
      GeoResponse("ok", TRUE, <<ResultNoGeometry>>),
      GeoResponse("ok", TRUE, <<ResultNoBbox>>) }

\* ",".join(parts)
RECURSIVE Join(_)
Join(parts) ==
    IF parts = << >> THEN ""
    ELSE IF Len(parts) = 1 THEN Head(parts)
    ELSE Head(parts) \o "," \o Join(Tail(parts))

\* ",".join([f"{lon},{lat}" for lon, lat in bbox_coordinates])
bbox_string(bbox_coordinates) ==
    Join([i \in 1..Len(bbox_coordinates) |->
            bbox_coordinates[i][1] \o "," \o bbox_coordinates[i][2]])

\* parse_first_result without its 'if not data' test: data[0] of an empty
\* list raises IndexError.
parse_first_result_unchecked(data) ==
    IF data = << >> THEN Raise("IndexError")
    ELSE LET first_result == data[1] IN
         IF "geometry" \notin DOMAIN first_result THEN Raise("KeyError")
         ELSE LET geometry == first_result["geometry"] IN
              IF "centre" \notin DOMAIN geometry THEN Raise("KeyError")
              ELSE IF "bbox" \notin DOMAIN geometry THEN Raise("KeyError")
              ELSE Return([t |-> "coords",
                           center_lat |-> geometry["centre"]["coordinates"][2],
                           center_lng |-> geometry["centre"]["coordinates"][1],
                           bbox |-> bbox_string(geometry["bbox"]["coordinates"][1])])

\* The body of the try block once the JSON is decoded: None for an empty
\* list, KeyError for a key the result lacks, the flat record otherwise.
parse_first_result(data) ==
    IF data = << >> THEN Return(NoneV)
    ELSE LET first_result == data[1] IN
         IF "geometry" \notin DOMAIN first_result THEN Raise("KeyError")
         ELSE LET geometry == first_result["geometry"] IN
              IF "centre" \notin DOMAIN geometry THEN Raise("KeyError")
              ELSE IF "bbox" \notin DOMAIN geometry THEN Raise("KeyError")
              ELSE LET centre == geometry["centre"]["coordinates"]
                       center_lng == centre[1]
                       center_lat == centre[2]
                       bbox_coordinates == geometry["bbox"]["coordinates"][1]
                   IN Return([t |-> "coords",
                              center_lat |-> center_lat,
                              center_lng |-> center_lng,
                              bbox |-> bbox_string(bbox_coordinates)])

\* get_city_coordinates: requests.exceptions.RequestException is caught and
\* gives None.  That covers the transport failures, the error statuses of
\* raise_for_status and the JSONDecodeError of an undecodable body (a
\* RequestException in requests); a KeyError of the parsing is not caught.
get_city_coordinates(response) ==
    IF response.net # "ok" THEN Return(NoneV)
    ELSE IF ~response.decodable THEN Return(NoneV)
    ELSE parse_first_result(response.data)

\* ------------------------------------------------------------------ session

\* The portal page: whether its text holds the csrf-token meta tag, and the
\* tag's content.  net is "error" when session.get or raise_for_status raises.
PageResponse(net, meta, content) == [net |-> net, meta |-> meta, content |-> content]

PageResponses ==
    { PageResponse("error", FALSE, ""),
      PageResponse("ok", FALSE, ""),
      PageResponse("ok", TRUE, ""),
      PageResponse("ok", TRUE, "tok-1") }

\* The headers a session sends; NoneV for a header that is not set.
BrowserHeaders ==
    [Accept |-> "text/html", XRequestedWith |-> NoneV,
     XCSRFTOKEN |-> NoneV, correlationID |-> NoneV]

\* re.search(r'<meta\s+name="csrf-token"\s+content="([^"]+)"', res.text):
\* the content group needs at least one character.
csrf_match(res) == IF res.meta /\ res.content # "" THEN JStr(res.content) ELSE NoneV

\* session.headers.update({...}) of step 3.
api_headers(csrf_token, uuid4) ==
    [Accept |-> "application/json", XRequestedWith |-> JStr("XMLHttpRequest"),
     XCSRFTOKEN |-> csrf_token, correlationID |-> uuid4]

\* ------------------------------------------------------------------ search

Specialite(libelle) == JObj([libelle |-> libelle])

Profession(specialite) == JObj([specialite |-> specialite])

GeocodeObj(latitude, longitude) == JObj([latitude |-> latitude, longitude |-> longitude])

Coordonnees(numTel) == JObj([numTel |-> numTel])

\* An entry with every key and every nested object: the entries below are
\* this one with keys removed or null.
FullEntry ==
    [prenom |-> JStr("Anne"), nom |-> JStr("Martin"),
     profession |-> Profession(Specialite(JStr("Medecin generaliste"))),
     voie |-> JStr("1 rue Paradis"), complement |-> JStr("Cabinet"),
     ville |-> JStr("Marseille"), codePostal |-> JStr("13001"),
     geocode |-> GeocodeObj(JStr("43.29"), JStr("5.37")),
     coordonnees |-> Coordonnees(JStr("0491000000")),
     carteVitale |-> JBool(TRUE)]

\* Keys missing or null in the ways the mapping accepts.
SparseEntry ==
    [FullEntry EXCEPT !["prenom"] = NoneV, !["profession"] = NoneV,
                      !["voie"] = Missing, !["complement"] = Missing,
                      !["ville"] = Missing, !["codePostal"] = NoneV,
                      !["geocode"] = GeocodeObj(Missing, NoneV),
                      !["coordonnees"] = Missing,
                      !["carteVitale"] = Missing]

\* profession without its 'specialite' object.
NoSpecialiteEntry ==
    [FullEntry EXCEPT !["profession"] = JObj([specialite |-> Missing, code |-> JStr("37")])]

\* geocode is null.
NullGeocodeEntry == [FullEntry EXCEPT !["geocode"] = NoneV]

\* The entries a payload is made of: one the mapping accepts, two it does not.
DoctorEntries ==
    {SparseEntry, NoSpecialiteEntry, NullGeocodeEntry}

\* x[k] on a value: KeyError for a missing key, TypeError on None.
Subscript(x, k) ==
    IF x.exc # "none" THEN x
    ELSE IF x.val.t # "dict" THEN Raise("TypeError")
    ELSE IF ~HasKey(x.val.v, k) THEN Raise("KeyError")
    ELSE Return(x.val.v[k])

\* x.get(k) on a value: AttributeError on None.
DotGet(x, k) ==
    IF x.t # "dict" THEN Raise("AttributeError") ELSE Return(Get(x.v, k, NoneV))

\* doctor_data["profession"]["specialite"]["libelle"]
\*     if doctor_data.get("profession") else None
specialty(doctor_data) ==
    IF Truthy(Get(doctor_data, "profession", NoneV))
    THEN Subscript(Subscript(Subscript(Return(JObj(doctor_data)), "profession"),
                             "specialite"), "libelle")
    ELSE Return(NoneV)

\* doctor_data.get(outer, {}).get(inner)
nested_get(doctor_data, outer, inner) ==
    DotGet(Get(doctor_data, outer, JObj([k \in {inner} |-> Missing])), inner)

\* models.Doctor(...) for one entry of the list: the keyword arguments are
\* evaluated in order, and the first exception ends the construction.
new_doctor(doctor_data, city_id) ==
    LET sp == specialty(doctor_data)
        lat == nested_get(doctor_data, "geocode", "latitude")
        lng == nested_get(doctor_data, "geocode", "longitude")
        tel == nested_get(doctor_data, "coordonnees", "numTel")
    IN IF sp.exc # "none" THEN Raise(sp.exc)
       ELSE IF lat.exc # "none" THEN Raise(lat.exc)
       ELSE IF lng.exc # "none" THEN Raise(lng.exc)
       ELSE IF tel.exc # "none" THEN Raise(tel.exc)
       ELSE Return([first_name |-> Get(doctor_data, "prenom", NoneV),
                    last_name |-> Get(doctor_data, "nom", NoneV),
                    specialty |-> sp.val,
                    city_id |-> city_id,
                    address |-> Get(doctor_data, "voie", NoneV),
                    office_name |-> Get(doctor_data, "complement", NoneV),
                    city |-> Get(doctor_data, "ville", NoneV),
                    postal_code |-> Get(doctor_data, "codePostal", NoneV),
                    latitude |-> lat.val,
                    longitude |-> lng.val,
                    phone_number |-> tel.val,
                    vitale_card |-> Get(doctor_data, "carteVitale", JBool(FALSE))])

\* The decoded payload: 'data' and one other key, each present or not.
Payload(data, total) == JObj([data |-> data, total |-> total])

RECURSIVE SeqsUpTo(_, _)
SeqsUpTo(S, n) ==
    IF n = 0 THEN {<< >>}
    ELSE LET shorter == SeqsUpTo(S, n - 1)
         IN shorter \cup {Append(l, e) : l \in {q \in shorter : Len(q) = n - 1}, e \in S}

Payloads ==
    {Payload(Missing, Missing), Payload(Missing, JStr("0"))}
        \cup {Payload(JList(l), JStr("n")) : l \in SeqsUpTo(DoctorEntries, MaxDoctors)}

SearchResponse(net, ctype, decodable, json) ==
    [net |-> net, ctype |-> ctype, decodable |-> decodable, json |-> json]

JsonType == "application/json;charset=UTF-8"

SearchResponses ==
    { SearchResponse("error", "", FALSE, NoneV),
      SearchResponse("ok", "", FALSE, NoneV),
      SearchResponse("ok", "text/html", FALSE, NoneV),
      SearchResponse("ok", "text/html", TRUE, Payload(JList(<<SparseEntry>>), JStr("n"))),
      SearchResponse("ok", JsonType, FALSE, NoneV) }
        \cup {SearchResponse("ok", JsonType, TRUE, p) : p \in Payloads}

\* "application/json" in content_type, over the content types of the model.
is_json(content_type) == content_type \in {"application/json", JsonType}

\* search_doctors_by_coordinates without its Content-Type test.
search_doctors_unchecked(response) ==
    IF response.net # "ok" THEN NoneV
    ELSE IF ~response.decodable THEN NoneV
    ELSE response.json

\* What search_doctors_by_coordinates returns for a response: any exception
\* of the try block (transport, undecodable body) is caught and logged, and
\* the function then falls off its end, which returns None.
search_doctors_by_coordinates(response) ==
    IF response.net # "ok" THEN NoneV
    ELSE IF ~is_json(response.ctype) THEN NoneV
    ELSE IF ~response.decodable THEN NoneV
    ELSE response.json

\* doctors_data.get('data', [])
doctor_list(doctors_data) == Get(doctors_data.v, "data", JList(<< >>)).v

\* ------------------------------------------------------------------ state

VARIABLES
    cities,         \* the cities table: committed rows, in insertion order
    doctors,        \* the doctors table: committed rows, in insertion order
    uuids,          \* uuid.uuid4() values drawn so far
    started,        \* runs of main() started so far
    pc,             \* where each run is
    city_name,      \* argument of scrape_doctors_for_city
    profession_id,  \* argument of scrape_doctors_for_city
    db_city,        \* city_id of the row db_city refers to, 0 for None
    coords,         \* what get_city_coordinates returned
    center_lat, center_lng, bbox,
    res,            \* the portal page response
    session,        \* headers of the requests session
    doctors_data,   \* what search_doctors_by_coordinates returned
    next,           \* index in doctor_list of the next entry of the for loop
    pending,        \* Doctor objects added to the database session, not committed
    exc,            \* the exception that left scrape_doctors_for_city
    sent,           \* the HTTP requests the run has sent, in order
    got,            \* the responses to them, in the same order
    before          \* the two tables as they were when the run started

storage == <<cities, doctors>>

locals ==
    <<city_name, profession_id, db_city, coords, center_lat, center_lng, bbox,
      res, session, doctors_data, next, pending, exc, sent, got, before>>

vars == <<cities, doctors, uuids, started, pc, locals>>

Unbound == "<unbound>"

Request(url, headers, params) == [url |-> url, headers |-> headers, params |-> params]

GeocodeUrl == "ansa-fo-api/recherche/adresse"

PageUrl == "recherche/"

SearchUrl == "ansa-fo-api/recherche"

Init ==
    /\ cities = << >>
    /\ doctors = << >>
    /\ uuids = 0
    /\ started = 0
    /\ pc = [r \in Runs |-> "idle"]
    /\ city_name = [r \in Runs |-> Unbound]
    /\ profession_id = [r \in Runs |-> 0]
    /\ db_city = [r \in Runs |-> 0]
    /\ coords = [r \in Runs |-> NoneV]
    /\ center_lat = [r \in Runs |-> Unbound]
    /\ center_lng = [r \in Runs |-> Unbound]
    /\ bbox = [r \in Runs |-> Unbound]
    /\ res = [r \in Runs |-> NoneV]
    /\ session = [r \in Runs |-> NoneV]
    /\ doctors_data = [r \in Runs |-> NoneV]
    /\ next = [r \in Runs |-> 0]
    /\ pending = [r \in Runs |-> << >>]
    /\ exc = [r \in Runs |-> "none"]
    /\ sent = [r \in Runs |-> << >>]
    /\ got = [r \in Runs |-> << >>]
    /\ before = [r \in Runs |-> <<<< >>, << >>>>]

\* ------------------------------------------------------------------ storage

\* new_city with the two coordinates exchanged.
new_city_swapped(id, name, lat, lng, box) ==
    [city_id |-> id, city_name |-> name, postal_code |-> NoneV,
     center_lat |-> lng, center_lng |-> lat, bbox |-> box]

\* models.City(...) once committed: the table assigns the next city_id.
new_city(id, name, lat, lng, box) ==
    [city_id |-> id, city_name |-> name, postal_code |-> NoneV,
     center_lat |-> lat, center_lng |-> lng, bbox |-> box]

\* query_city filtering on another column: it selects no row.
query_city_postal_code(name) == {k \in 1..Len(cities) : cities[k].postal_code = JStr(name)}

\* db.query(models.City).filter(models.City.city_name == name): the indexes
\* of the rows it selects.
query_city(name) == {k \in 1..Len(cities) : cities[k].city_name = name}

\* db.commit() of the Doctor objects of a session: each gets the next id.
commit_doctors(table, objects) ==
    table \o [k \in 1..Len(objects) |->
                [id |-> Len(table) + k, row |-> objects[k]]]

\* ------------------------------------------------------------------ actions

\* main: a database session is opened and scrape_doctors_for_city is called.
StartRun(r, name, prof) ==
    /\ pc[r] = "idle"
    /\ started < MaxRuns
    /\ started' = started + 1
    /\ pc' = [pc EXCEPT ![r] = "query"]
    /\ city_name' = [city_name EXCEPT ![r] = name]
    /\ profession_id' = [profession_id EXCEPT ![r] = prof]
    /\ before' = [before EXCEPT ![r] = storage]
    /\ UNCHANGED <<got, cities, doctors, uuids, db_city, coords, center_lat, center_lng,
                   bbox, res, session, doctors_data, next, pending, exc, sent>>

\* LookupCity that never takes the cached branch.
LookupCityAlwaysMiss(r) ==
    /\ pc[r] = "query"
    /\ pc' = [pc EXCEPT ![r] = "geocode"]
    /\ UNCHANGED <<got, cities, doctors, uuids, started, city_name, profession_id, coords,
                   db_city, center_lat, center_lng, bbox,
                   res, session, doctors_data, next, pending, exc, sent, before>>

\* The cache lookup: .first() of the rows with this name, and the cached
\* coordinates when there is one.
LookupCity(r) ==
    /\ pc[r] = "query"
    /\ IF query_city(city_name[r]) # {}
       THEN \E k \in query_city(city_name[r]) :
                /\ db_city' = [db_city EXCEPT ![r] = cities[k].city_id]
                /\ center_lat' = [center_lat EXCEPT ![r] = cities[k].center_lat]
                /\ center_lng' = [center_lng EXCEPT ![r] = cities[k].center_lng]
                /\ bbox' = [bbox EXCEPT ![r] = cities[k].bbox]
                /\ pc' = [pc EXCEPT ![r] = "bootstrap"]
       ELSE /\ pc' = [pc EXCEPT ![r] = "geocode"]
            /\ UNCHANGED <<db_city, center_lat, center_lng, bbox>>
    /\ UNCHANGED <<got, cities, doctors, uuids, started, city_name, profession_id, coords,
                   res, session, doctors_data, next, pending, exc, sent, before>>

\* coords = get_city_coordinates(city_name), and the early return on None.
Geocode(r, response) ==
    /\ pc[r] = "geocode"
    /\ got' = [got EXCEPT ![r] = Append(@, response)]
    /\ sent' = [sent EXCEPT ![r] =
                    Append(@, Request(GeocodeUrl, NoneV, [adresse |-> city_name[r]]))]
    /\ LET out == get_city_coordinates(response)
       IN IF out.exc # "none"
          THEN /\ exc' = [exc EXCEPT ![r] = out.exc]
               /\ pc' = [pc EXCEPT ![r] = "raised"]
               /\ UNCHANGED <<coords, center_lat, center_lng, bbox>>
          ELSE /\ coords' = [coords EXCEPT ![r] = out.val]
               /\ exc' = exc
               /\ IF out.val.t = "None"
                  THEN /\ pc' = [pc EXCEPT ![r] = "returned"]
                       /\ UNCHANGED <<center_lat, center_lng, bbox>>
                  ELSE /\ center_lat' = [center_lat EXCEPT ![r] = out.val.center_lat]
                       /\ center_lng' = [center_lng EXCEPT ![r] = out.val.center_lng]
                       /\ bbox' = [bbox EXCEPT ![r] = out.val.bbox]
                       /\ pc' = [pc EXCEPT ![r] = "create_city"]
    /\ UNCHANGED <<cities, doctors, uuids, started, city_name, profession_id, db_city,
                   res, session, doctors_data, next, pending, before>>

\* CreateCity on a cities table with a uniqueness constraint on city_name:
\* the commit of a second row with the name raises IntegrityError.
CreateCityUnique(r) ==
    /\ pc[r] = "create_city"
    /\ IF query_city(city_name[r]) # {}
       THEN /\ exc' = [exc EXCEPT ![r] = "IntegrityError"]
            /\ pc' = [pc EXCEPT ![r] = "raised"]
            /\ UNCHANGED <<cities, db_city>>
       ELSE /\ cities' = Append(cities, new_city(Len(cities) + 1, city_name[r],
                                                 center_lat[r], center_lng[r], bbox[r]))
            /\ db_city' = [db_city EXCEPT ![r] = Len(cities) + 1]
            /\ pc' = [pc EXCEPT ![r] = "bootstrap"]
            /\ exc' = exc
    /\ UNCHANGED <<got, doctors, uuids, started, city_name, profession_id, coords,
                   center_lat, center_lng, bbox, res, session, doctors_data, next,
                   pending, sent, before>>

\* db.add(new_city); db.commit(); db.refresh(new_city); db_city = new_city
CreateCity(r) ==
    /\ pc[r] = "create_city"
    /\ cities' = Append(cities, new_city(Len(cities) + 1, city_name[r],
                                         center_lat[r], center_lng[r], bbox[r]))
    /\ db_city' = [db_city EXCEPT ![r] = Len(cities) + 1]
    /\ pc' = [pc EXCEPT ![r] = "bootstrap"]
    /\ UNCHANGED <<got, doctors, uuids, started, city_name, profession_id, coords,
                   center_lat, center_lng, bbox, res, session, doctors_data, next,
                   pending, exc, sent, before>>

\* create_authenticated_session, step 1: the portal page is requested with
\* the browser headers; a transport error or an error status propagates.
FetchPage(r, response) ==
    /\ pc[r] = "bootstrap"
    /\ session' = [session EXCEPT ![r] = BrowserHeaders]
    /\ got' = [got EXCEPT ![r] = Append(@, response)]
    /\ sent' = [sent EXCEPT ![r] = Append(@, Request(PageUrl, BrowserHeaders, NoneV))]
    /\ IF response.net # "ok"
       THEN /\ exc' = [exc EXCEPT ![r] = "RequestException"]
            /\ pc' = [pc EXCEPT ![r] = "raised"]
            /\ res' = res
       ELSE /\ res' = [res EXCEPT ![r] = response]
            /\ pc' = [pc EXCEPT ![r] = "extract"]
            /\ exc' = exc
    /\ UNCHANGED <<cities, doctors, uuids, started, city_name, profession_id, db_city,
                   coords, center_lat, center_lng, bbox, doctors_data, next, pending,
                   before>>

\* ExtractToken without the 'if not match' test: a page without the token
\* gives a session whose X-CSRF-TOKEN is None.
ExtractTokenUnchecked(r) ==
    /\ pc[r] = "extract"
    /\ uuids' = uuids + 1
    /\ session' = [session EXCEPT ![r] =
                      api_headers(csrf_match(res[r]), [t |-> "uuid", v |-> uuids + 1])]
    /\ pc' = [pc EXCEPT ![r] = "search"]
    /\ UNCHANGED <<got, cities, doctors, started, city_name, profession_id, db_city,
                   coords, center_lat, center_lng, bbox, res, doctors_data, next,
                   pending, exc, sent, before>>

\* create_authenticated_session, steps 2 and 3: RuntimeError when the token
\* is not found; else the token and a new uuid4 go into the headers.
ExtractToken(r) ==
    /\ pc[r] = "extract"
    /\ IF csrf_match(res[r]).t = "None"
       THEN /\ exc' = [exc EXCEPT ![r] = "RuntimeError"]
            /\ pc' = [pc EXCEPT ![r] = "raised"]
            /\ UNCHANGED <<session, uuids>>
       ELSE /\ uuids' = uuids + 1
            /\ session' = [session EXCEPT ![r] =
                              api_headers(csrf_match(res[r]), [t |-> "uuid", v |-> uuids + 1])]
            /\ pc' = [pc EXCEPT ![r] = "search"]
            /\ exc' = exc
    /\ UNCHANGED <<got, cities, doctors, started, city_name, profession_id, db_city, coords,
                   center_lat, center_lng, bbox, res, doctors_data, next, pending,
                   sent, before>>

\* The query parameters of the search request.
search_params(prof, lat, lng, box) ==
    [nom |-> "", idProfession |-> prof, centre |-> lng \o "," \o lat,
     bbox |-> box, bboxElargie |-> "true", professionType |-> "PROFESSION"]

\* doctors_data = search_doctors_by_coordinates(...), and the early return
\* when it is falsy.
Search(r, response) ==
    /\ pc[r] = "search"
    /\ got' = [got EXCEPT ![r] = Append(@, response)]
    /\ sent' = [sent EXCEPT ![r] =
                    Append(@, Request(SearchUrl, session[r],
                                      search_params(profession_id[r], center_lat[r],
                                                    center_lng[r], bbox[r])))]
    /\ doctors_data' = [doctors_data EXCEPT ![r] = search_doctors_by_coordinates(response)]
    /\ IF Truthy(search_doctors_by_coordinates(response))
       THEN /\ pc' = [pc EXCEPT ![r] = "loop"]
            /\ next' = [next EXCEPT ![r] = 1]
       ELSE /\ pc' = [pc EXCEPT ![r] = "returned"]
            /\ next' = next
    /\ UNCHANGED <<cities, doctors, uuids, started, city_name, profession_id, db_city,
                   coords, center_lat, center_lng, bbox, res, session, pending, exc,
                   before>>

\* AddDoctor on a session that commits every object as it is added.
AddDoctorAutocommit(r) ==
    /\ pc[r] = "loop"
    /\ next[r] <= Len(doctor_list(doctors_data[r]))
    /\ LET out == new_doctor(doctor_list(doctors_data[r])[next[r]], db_city[r])
       IN IF out.exc # "none"
          THEN /\ exc' = [exc EXCEPT ![r] = out.exc]
               /\ pc' = [pc EXCEPT ![r] = "raised"]
               /\ UNCHANGED <<doctors, next>>
          ELSE /\ doctors' = commit_doctors(doctors, <<out.val>>)
               /\ next' = [next EXCEPT ![r] = @ + 1]
               /\ UNCHANGED <<exc, pc>>
    /\ UNCHANGED <<got, cities, uuids, started, city_name, profession_id, db_city,
                   coords, center_lat, center_lng, bbox, res, session, doctors_data,
                   pending, sent, before>>

\* One turn of the for loop: the entry is mapped and added to the session;
\* an exception of the mapping leaves the function.
AddDoctor(r) ==
    /\ pc[r] = "loop"
    /\ next[r] <= Len(doctor_list(doctors_data[r]))
    /\ LET out == new_doctor(doctor_list(doctors_data[r])[next[r]], db_city[r])
       IN IF out.exc # "none"
          THEN /\ exc' = [exc EXCEPT ![r] = out.exc]
               /\ pc' = [pc EXCEPT ![r] = "raised"]
               /\ UNCHANGED <<pending, next>>
          ELSE /\ pending' = [pending EXCEPT ![r] = Append(@, out.val)]
               /\ next' = [next EXCEPT ![r] = @ + 1]
               /\ UNCHANGED <<exc, pc>>
    /\ UNCHANGED <<got, cities, doctors, uuids, started, city_name, profession_id, db_city,
                   coords, center_lat, center_lng, bbox, res, session, doctors_data,
                   sent, before>>

\* db.commit() after the loop: every added Doctor is written at once.
CommitDoctors(r) ==
    /\ pc[r] = "loop"
    /\ next[r] > Len(doctor_list(doctors_data[r]))
    /\ doctors' = commit_doctors(doctors, pending[r])
    /\ pending' = [pending EXCEPT ![r] = << >>]
    /\ pc' = [pc EXCEPT ![r] = "returned"]
    /\ UNCHANGED <<got, cities, uuids, started, city_name, profession_id, db_city, coords,
                   center_lat, center_lng, bbox, res, session, doctors_data, next,
                   exc, sent, before>>

\* Rollback that also undoes what the run has committed.
RollbackCommitted(r) ==
    /\ pc[r] = "raised"
    /\ pending' = [pending EXCEPT ![r] = << >>]
    /\ cities' = before[r][1]
    /\ doctors' = before[r][2]
    /\ pc' = [pc EXCEPT ![r] = "finally"]
    /\ UNCHANGED <<got, uuids, started, city_name, profession_id, db_city,
                   coords, center_lat, center_lng, bbox, res, session, doctors_data,
                   next, exc, sent, before>>

\* main's except block: db.rollback() drops what the session has not committed.
Rollback(r) ==
    /\ pc[r] = "raised"
    /\ pending' = [pending EXCEPT ![r] = << >>]
    /\ pc' = [pc EXCEPT ![r] = "finally"]
    /\ UNCHANGED <<got, cities, doctors, uuids, started, city_name, profession_id, db_city,
                   coords, center_lat, center_lng, bbox, res, session, doctors_data,
                   next, exc, sent, before>>

\* main's finally block: db.close(), after a normal return or the rollback.
Close(r) ==
    /\ pc[r] \in {"returned", "finally"}
    /\ pending' = [pending EXCEPT ![r] = << >>]
    /\ pc' = [pc EXCEPT ![r] = "ended"]
    /\ UNCHANGED <<got, cities, doctors, uuids, started, city_name, profession_id, db_city,
                   coords, center_lat, center_lng, bbox, res, session, doctors_data,
                   next, exc, sent, before>>

\* main returns: the locals of the run are gone.
Exit(r) ==
    /\ pc[r] = "ended"
    /\ pc' = [pc EXCEPT ![r] = "idle"]
    /\ city_name' = [city_name EXCEPT ![r] = Unbound]
    /\ profession_id' = [profession_id EXCEPT ![r] = 0]
    /\ db_city' = [db_city EXCEPT ![r] = 0]
    /\ coords' = [coords EXCEPT ![r] = NoneV]
    /\ center_lat' = [center_lat EXCEPT ![r] = Unbound]
    /\ center_lng' = [center_lng EXCEPT ![r] = Unbound]
    /\ bbox' = [bbox EXCEPT ![r] = Unbound]
    /\ res' = [res EXCEPT ![r] = NoneV]
    /\ session' = [session EXCEPT ![r] = NoneV]
    /\ doctors_data' = [doctors_data EXCEPT ![r] = NoneV]
    /\ next' = [next EXCEPT ![r] = 0]
    /\ pending' = [pending EXCEPT ![r] = << >>]
    /\ exc' = [exc EXCEPT ![r] = "none"]
    /\ sent' = [sent EXCEPT ![r] = << >>]
    /\ got' = [got EXCEPT ![r] = << >>]
    /\ before' = [before EXCEPT ![r] = <<<< >>, << >>>>]
    /\ UNCHANGED <<cities, doctors, uuids, started>>

\* Runs are executed one after another: a run starts when no other is under way.
Sequential == \A q \in Runs : pc[q] = "idle"

Next ==
    \E r \in Runs :
        \/ \E name \in CityNames, prof \in ProfessionIds :
              Sequential /\ StartRun(r, name, prof)
        \/ LookupCity(r)
        \/ \E response \in GeoResponses : Geocode(r, response)
        \/ CreateCity(r)
        \/ \E response \in PageResponses : FetchPage(r, response)
        \/ ExtractToken(r)
        \/ \E response \in SearchResponses : Search(r, response)
        \/ AddDoctor(r)
        \/ CommitDoctors(r)
        \/ Rollback(r)
        \/ Close(r)
        \/ Exit(r)

Spec == Init /\ [][Next]_vars

\* ------------------------------------------------------------------ claims

\* The tables as they were when run r started.
CitiesBefore(r) == before[r][1]

DoctorsBefore(r) == before[r][2]

\* A City row with exactly this run's city_name was stored when it started.
CachedAtStart(r) ==
    \E k \in 1..Len(CitiesBefore(r)) : CitiesBefore(r)[k].city_name = city_name[r]

\* The positions in sent[r] of the requests to a url.
RequestsTo(r, url) == {k \in 1..Len(sent[r]) : sent[r][k].url = url}

\* The run is past its cache lookup.
LookedUp(r) == pc[r] \notin {"idle", "query"}

\* The run is past its geocoding call.
Geocoded(r) == pc[r] \notin {"idle", "query", "geocode"}

\* The run is past the creation of its City row.
PastCityCreation(r) == pc[r] \notin {"idle", "query", "geocode", "create_city"}

\* The run is over: scrape_doctors_for_city returned or raised and main
\* has closed the database session.
Ended(r) == pc[r] = "ended"

\* C1: in a run that finds a City row with its city_name in storage at the
\* start, no geocoding request is sent, no City row is created, and the
\* coordinates and bbox handed to the search (the locals and the 'centre' and
\* 'bbox' parameters of the request) are those of the stored row.
C1_CacheHit ==
    \A r \in Runs :
        (pc[r] # "idle" /\ CachedAtStart(r)) =>
            /\ RequestsTo(r, GeocodeUrl) = {}
            /\ cities = CitiesBefore(r)
            /\ LookedUp(r) =>
                  \E k \in 1..Len(CitiesBefore(r)) :
                      LET row == CitiesBefore(r)[k] IN
                      /\ row.city_name = city_name[r]
                      /\ center_lat[r] = row.center_lat
                      /\ center_lng[r] = row.center_lng
                      /\ bbox[r] = row.bbox
                      /\ \A q \in RequestsTo(r, SearchUrl) :
                            /\ sent[r][q].params.centre =
                                   row.center_lng \o "," \o row.center_lat
                            /\ sent[r][q].params.bbox = row.bbox

\* C1 witness: a run on a cached city has sent its search request.
C1_Witness ==
    \E r \in Runs : CachedAtStart(r) /\ RequestsTo(r, SearchUrl) # {}

\* C2: in a run that finds no City row with its city_name at the start,
\* one geocoding request is sent and never a second; when the resolver
\* returned coordinates, the cities table is the one of the start plus one
\* row, with the run's city_name and the resolver's center_lat, center_lng
\* and bbox under the same names.
C2_CacheMiss ==
    \A r \in Runs :
        (pc[r] # "idle" /\ ~CachedAtStart(r)) =>
            /\ Cardinality(RequestsTo(r, GeocodeUrl)) = (IF Geocoded(r) THEN 1 ELSE 0)
            /\ (PastCityCreation(r) /\ coords[r].t = "coords") =>
                  /\ Len(cities) = Len(CitiesBefore(r)) + 1
                  /\ SubSeq(cities, 1, Len(CitiesBefore(r))) = CitiesBefore(r)
                  /\ LET row == cities[Len(cities)] IN
                     /\ row.city_name = city_name[r]
                     /\ row.center_lat = coords[r].center_lat
                     /\ row.center_lng = coords[r].center_lng
                     /\ row.bbox = coords[r].bbox
            /\ (Geocoded(r) /\ coords[r].t # "coords") => cities = CitiesBefore(r)

\* C2 witness: a run on an uncached city is over and has stored its City row.
C2_Witness ==
    \E r \in Runs :
        /\ Ended(r) /\ ~CachedAtStart(r) /\ coords[r].t = "coords"
        /\ Len(cities) = Len(CitiesBefore(r)) + 1

\* The geocoding response of run r was a transport failure or an empty list.
GeocodingNotFound(r) ==
    /\ Geocoded(r)
    /\ ~CachedAtStart(r)
    /\ \/ got[r][1].net = "error"
       \/ got[r][1].net = "ok" /\ got[r][1].decodable /\ got[r][1].data = << >>

\* C3: when the city is not cached and the geocoding response is an empty
\* list or a transport failure, the run returns at once: no exception, no
\* request but the geocoding one, nothing queued, and both tables as they
\* were when the run started.
C3_GeocodingNotFound ==
    \A r \in Runs :
        GeocodingNotFound(r) =>
            /\ pc[r] \in {"returned", "ended"}
            /\ exc[r] = "none"
            /\ RequestsTo(r, PageUrl) = {}
            /\ RequestsTo(r, SearchUrl) = {}
            /\ Len(sent[r]) = 1
            /\ pending[r] = << >>
            /\ storage = before[r]

\* C3 witness: a run whose geocoding found nothing is over.
C3_Witness ==
    \E r \in Runs : GeocodingNotFound(r) /\ Ended(r) /\ got[r][1].net = "ok"

\* The search of run r was answered with a Content-Type that does not
\* contain "application/json".
BlockedSearch(r) ==
    /\ RequestsTo(r, SearchUrl) # {}
    /\ got[r][Len(got[r])].net = "ok"
    /\ got[r][Len(got[r])].ctype \in {"", "text/html"}

\* C4: when the search response's Content-Type does not contain
\* "application/json", search_doctors_by_coordinates returns None, the run
\* returns without an exception, and no Doctor is queued or written.
C4_BlockedSearch ==
    \A r \in Runs :
        BlockedSearch(r) =>
            /\ doctors_data[r] = NoneV
            /\ exc[r] = "none"
            /\ pc[r] \in {"returned", "ended"}
            /\ pending[r] = << >>
            /\ doctors = DoctorsBefore(r)

\* C4 witness: a run is over whose search was answered as text/html with a
\* body that would decode as a payload.
C4_Witness ==
    \E r \in Runs :
        BlockedSearch(r) /\ Ended(r) /\ got[r][Len(got[r])].decodable

\* The search of run r returned a payload: a non-empty JSON object.
PayloadReturned(r) == doctors_data[r].t = "dict" /\ Truthy(doctors_data[r])

\* The Doctor rows written since run r started.
DoctorsAdded(r) == SubSeq(doctors, Len(DoctorsBefore(r)) + 1, Len(doctors))

\* C5: whatever optional keys and nested objects the entries of the
\* payload's data list miss or hold as null, the run does not fail and one
\* Doctor row per entry is committed.
C5_DefensiveMapping ==
    \A r \in Runs :
        (Ended(r) /\ PayloadReturned(r)) =>
            /\ exc[r] = "none"
            /\ Len(DoctorsAdded(r)) = Len(doctor_list(doctors_data[r]))

\* The City row run r created and committed.
CityCreatedBy(r) ==
    new_city(db_city[r], city_name[r], coords[r].center_lat,
             coords[r].center_lng, coords[r].bbox)

\* C6: once a run has committed its new City row, the row stays in the
\* cities table through everything that follows in the run: a bootstrap
\* failure, a search that yields nothing, an exception of the mapping, the
\* rollback and the close.
C6_CityCommitSurvives ==
    \A r \in Runs :
        (PastCityCreation(r) /\ ~CachedAtStart(r) /\ coords[r].t = "coords") =>
            \E k \in 1..Len(cities) : cities[k] = CityCreatedBy(r)

\* C6 witness: a run that created its City row raised afterwards, was
\* rolled back and is over.
C6_Witness ==
    \E r \in Runs :
        /\ Ended(r) /\ ~CachedAtStart(r) /\ coords[r].t = "coords"
        /\ exc[r] # "none"

\* C7: at every point of a run the doctors table is either the one of the
\* start or the one of the start plus one row for every entry of the
\* payload's data list, in order, all with the run's city_id; and a run that
\* raised has written no Doctor row.
C7_BatchAtomicity ==
    \A r \in Runs :
        pc[r] # "idle" =>
            /\ \/ DoctorsAdded(r) = << >>
               \/ /\ PayloadReturned(r)
                  /\ Len(DoctorsAdded(r)) = Len(doctor_list(doctors_data[r]))
                  /\ \A k \in 1..Len(DoctorsAdded(r)) :
                        /\ DoctorsAdded(r)[k].row.city_id = db_city[r]
                        /\ DoctorsAdded(r)[k].row.last_name =
                               Get(doctor_list(doctors_data[r])[k], "nom", NoneV)
            /\ SubSeq(doctors, 1, Len(DoctorsBefore(r))) = DoctorsBefore(r)
            /\ exc[r] # "none" => DoctorsAdded(r) = << >>
            /\ pc[r] \in {"finally", "ended"} => pending[r] = << >>

\* C7 witness: a run raised in the mapping after it had queued a Doctor,
\* and is over.
C7_Witness ==
    \E r \in Runs : Ended(r) /\ exc[r] # "none" /\ next[r] > 1

\* C8: no exception leaves scrape_doctors_for_city but the RuntimeError of
\* the missing CSRF token.
C8_OnlyBootstrapFailurePropagates ==
    \A r \in Runs : exc[r] \in {"none", "RuntimeError"}

\* The portal page of run r was requested and did not yield a token.
BootstrapFailed(r) ==
    /\ RequestsTo(r, PageUrl) # {}
    /\ pc[r] \notin {"extract"}
    /\ LET page == got[r][CHOOSE k \in RequestsTo(r, PageUrl) : TRUE]
       IN page.net # "ok" \/ ~page.meta \/ page.content = ""

OneRowPerCityName ==
    \A j, k \in 1..Len(cities) : cities[j].city_name = cities[k].city_name => j = k

\* Every row of the cities table is still there, unchanged, after the step.
CityRowsKept ==
    /\ Len(cities') >= Len(cities)
    /\ \A k \in 1..Len(cities) : cities'[k] = cities[k]

\* C10: over runs executed one after another, the cities table never holds
\* two rows with the same city_name, and no step changes or removes a row.
C10_CityCacheInvariant == []OneRowPerCityName /\ [][CityRowsKept]_vars

\* C10 witness: a run on a cached city has written Doctor rows, with the
\* cities table holding a row per city name.
C10_Witness ==
    \E r \in Runs :
        /\ Ended(r) /\ CachedAtStart(r)
        /\ DoctorsAdded(r) # << >>
        /\ Len(cities) = 1

\* ------------------------------------------------------------------ interleaved runs

\* The responses of the interleaved runs.  Geocoding: nothing found, or one
\* of two different places.
RaceGeoResponses ==
    { GeoResponse("ok", TRUE, << >>),
      GeoResponse("ok", TRUE, <<ResultA>>),
      GeoResponse("ok", TRUE, <<ResultB, ResultA>>) }

\* The portal page: a transport failure, a page without the token, a page
\* with it.
RacePageResponses ==
    { PageResponse("error", FALSE, ""),
      PageResponse("ok", FALSE, ""),
      PageResponse("ok", TRUE, "tok-1") }

\* The search: a transport failure, a payload the mapping accepts and one it
\* does not.
RaceSearchResponses ==
    { SearchResponse("error", "", FALSE, NoneV),
      SearchResponse("ok", JsonType, TRUE, Payload(JList(<<SparseEntry>>), JStr("n"))),
      SearchResponse("ok", JsonType, TRUE, Payload(JList(<<NoSpecialiteEntry>>), JStr("n"))) }

\* Two processes run main() at the same time, each with its own database
\* session: a run starts whatever the other is doing, and their steps
\* interleave.
NextRace ==
    \E r \in Runs :
        \/ \E name \in CityNames, prof \in ProfessionIds : StartRun(r, name, prof)
        \/ LookupCity(r)
        \/ \E response \in RaceGeoResponses : Geocode(r, response)
        \/ CreateCity(r)
        \/ \E response \in RacePageResponses : FetchPage(r, response)
        \/ ExtractToken(r)
        \/ \E response \in RaceSearchResponses : Search(r, response)
        \/ AddDoctor(r)
        \/ CommitDoctors(r)
        \/ Rollback(r)
        \/ Close(r)
        \/ Exit(r)

SpecRace == Init /\ [][NextRace]_vars

\* Run r geocoded its city, so its lookup found no row, and is past the
\* commit of its City row.
MissedAndInserted(r) == PastCityCreation(r) /\ coords[r].t = "coords"

\* C11: when two interleaved runs for the same city name both looked the
\* name up before either had committed its row, both geocode and both
\* insert: the cities table then holds two rows with that city_name, one
\* for each run, and nothing stops the second insert.
C11_RaceDoubleInsert ==
    \A r, q \in Runs :
        (r # q /\ MissedAndInserted(r) /\ MissedAndInserted(q)
              /\ city_name[r] = city_name[q]) =>
            /\ db_city[r] # db_city[q]
            /\ \E j, k \in 1..Len(cities) :
                  /\ j # k
                  /\ cities[j].city_id = db_city[r]
                  /\ cities[k].city_id = db_city[q]
                  /\ cities[j].city_name = city_name[r]
                  /\ cities[k].city_name = city_name[r]

\* C11 witness: two runs for the same name have both missed and inserted,
\* and the cities table holds two rows with the same city_name.
C11_Witness ==
    /\ ~OneRowPerCityName
    /\ \E r, q \in Runs :
          /\ r # q /\ city_name[r] = city_name[q]
          /\ MissedAndInserted(r) /\ MissedAndInserted(q)

====
